---- MODULE Spec2Model ----
(***************************************************************************)
(* State-machine model of whisper_live/text_processing.py                  *)
(* (class TranscriptProcessor).                                            *)
(*                                                                         *)
(* Text is a sequence of one-character strings.  A blocking call of the    *)
(* remote completion service is a request appended to `calls`; its return  *)
(* is a reply appended to `served`, or an exception.                       *)
(*                                                                         *)
(* Arithmetic.  The code compares an integer length with the float         *)
(* products context_length * 0.6 and context_length * 0.8.  The doubles    *)
(* nearest 0.6 and 0.8 differ from 3/5 and 4/5 by a relative error of at   *)
(* most 2^-54, so for every context_length below 2^50 the rounded product  *)
(* is the exact integer when 3n/5 (4n/5) is an integer, and otherwise it   *)
(* lies strictly between the same two integers as the exact product.  The  *)
(* comparisons with an integer length therefore agree with the exact       *)
(* rational comparisons 10*len < 6*n and 10*len > 8*n used below.          *)
(***************************************************************************)
EXTENDS Integers, Sequences, FiniteSets, TLC

\* ------------------------------------------------------------------ bounds
MaxLen == 7
MaxLong == 12
MaxContext == 5
MaxTextLen == 3
MaxTitleLen == 2

\* --------------------------------------------------------------- constants
GPT4 == "gpt-4-0125-preview"
GPT35 == "gpt-3.5-turbo-0125"
UnknownModel == "unknown-model"
DefaultModel == GPT35
ModelIds == {GPT4, GPT35}

Gpt4Context == 128000
Gpt35Context == 16385
NoEntry == -1

DOT == "."
NL == "\n"
QUOTE == "\""
SPACE == " "
UNDERSCORE == "_"

instructions == [summarize |-> "summarize-prompt", fix_summary |-> "fix_summary-prompt"]
TitleInstructions == "title-prompt"

NoFile == <<"ENOENT">>
OldContent == <<"o">>

Errors == {"RemoteServiceError", "MalformedResponseError"}

\* ----------------------------------------------------------------- inputs
Min(a, b) == IF a < b THEN a ELSE b
Max(a, b) == IF a > b THEN a ELSE b

Strings(chars, n) == UNION {[1..k -> chars] : k \in 0..n}

Transcripts == Strings({"a", DOT}, MaxLen)
                 \cup {[i \in 1..n |-> "a"] : n \in (MaxLen + 1)..MaxLong}
Texts == Strings({"a", DOT}, MaxTextLen)
Heads == 0..(MaxTextLen + 1)
SummaryReplies == {<<"x">>, <<"y">>}
TitleReplies == Strings({"T", QUOTE, SPACE, UNDERSCORE}, MaxTitleLen)
ModelTables == {[m \in ModelIds |-> IF m = GPT4 THEN Gpt4Context ELSE Gpt35Context]}
                 \cup {[m \in ModelIds |-> IF m = GPT4 THEN MaxContext ELSE c] : c \in 0..MaxContext}

\* ---------------------------------------------------------- pure functions
IndexOf(s, c) == IF \E i \in 1..Len(s) : s[i] = c
                 THEN CHOOSE i \in 1..Len(s) : s[i] = c /\ \A j \in 1..(i-1) : s[j] # c
                 ELSE 0

RECURSIVE Split(_, _)
Split(s, sep) == LET k == IndexOf(s, sep)
                 IN IF k = 0 THEN <<s>>
                    ELSE <<SubSeq(s, 1, k-1)>> \o Split(SubSeq(s, k+1, Len(s)), sep)

RECURSIVE Join(_, _)
Join(list, sep) == IF list = <<>> THEN <<>>
                   ELSE IF Len(list) = 1 THEN list[1]
                   ELSE list[1] \o <<sep>> \o Join(Tail(list), sep)

RECURSIVE ReplaceFirst(_, _, _)
ReplaceFirst(s, old, new) == IF s = <<>> THEN <<>>
                             ELSE IF Head(s) = old THEN new \o Tail(s)
                             ELSE <<Head(s)>> \o ReplaceFirst(Tail(s), old, new)

RECURSIVE Replace(_, _, _)
Replace(s, old, new) == IF s = <<>> THEN <<>>
                        ELSE (IF Head(s) = old THEN new ELSE <<Head(s)>>)
                             \o Replace(Tail(s), old, new)

Slice(s, n) == IF n >= 0 THEN SubSeq(s, 1, Min(n, Len(s)))
               ELSE SubSeq(s, 1, Max(Len(s) + n, 0))

RequestDefaultModel(instr, prompt, m) == [system |-> instr, user |-> prompt, model |-> DefaultModel]

Request(instr, prompt, m) == [system |-> instr, user |-> prompt, model |-> m]

TitleFormat(s) == Replace(Replace(s, QUOTE, <<>>), SPACE, <<UNDERSCORE>>)

\* ------------------------------------------------------------------- state
\* models               self.models, model name -> context size in tokens (9-12)
\* summary_md           content of the file summary.md (95-96), NoFile if absent
\* op, pc, error        the method running, its position, the exception raised
\* transcript, model    arguments of the running method (50, 98)
\* head                 argument of generate_text_name (98)
\* path                 branch taken at line 61
\* sentences, idx       the list iterated at line 68 and the loop position
\* current_chunk, current_chunk_length, chunks   locals of lines 64-79
\* flushed              the lists current_chunk joined at lines 71 and 79
\* summaries, summary   locals of lines 84-93 and 62/93
\* calls                requests sent by model_response (41-47), in order
\* served               texts returned by model_response (48), in order
\* transcript_name      value returned by generate_text_name (113)
VARIABLES models, summary_md, op, pc, error, transcript, model, head, path,
          sentences, idx, current_chunk, current_chunk_length, chunks, flushed,
          summaries, summary, calls, served, transcript_name

vars == <<models, summary_md, op, pc, error, transcript, model, head, path,
          sentences, idx, current_chunk, current_chunk_length, chunks, flushed,
          summaries, summary, calls, served, transcript_name>>

Init == /\ models \in ModelTables
        /\ summary_md \in {NoFile, OldContent}
        /\ op = "none"
        /\ pc = "idle"
        /\ error = "none"
        /\ transcript = <<>>
        /\ model = DefaultModel
        /\ head = 0
        /\ path = "none"
        /\ sentences = <<>>
        /\ idx = 0
        /\ current_chunk = <<>>
        /\ current_chunk_length = 0
        /\ chunks = <<>>
        /\ flushed = <<>>
        /\ summaries = <<>>
        /\ summary = <<>>
        /\ calls = <<>>
        /\ served = <<>>
        /\ transcript_name = <<>>

\* One invocation per behaviour: a call of either method shares nothing with an
\* earlier one but self.models, which no method assigns, and the file
\* summary.md, whose earlier content Init chooses.
Ready == pc = "idle"

LookupOrDefault(m) == IF m \in DOMAIN models THEN models[m] ELSE models[DefaultModel]

Lookup(m) == IF m \in DOMAIN models THEN models[m] ELSE NoEntry

ContextLength(m) == Lookup(m) * 4

FitsDirectOrEqual(len, context_length) == 10 * len <= 6 * context_length

FitsDirect(len, context_length) == 10 * len < 6 * context_length

BoundaryReachedLoose(len, context_length) == 10 * len > 10 * context_length

BoundaryReached(len, context_length) == 10 * len > 8 * context_length

FixPromptReversed(list) == Join([i \in 1..Len(list) |-> list[Len(list) + 1 - i]], NL)

FixPrompt(list) == Join(list, NL)

\* a fresh invocation: arguments bound, every local of the previous one gone
Enter(o, t, m, h) == /\ Ready
                     /\ op' = o
                     /\ transcript' = t
                     /\ model' = m
                     /\ head' = h
                     /\ summaries' = <<>>
                     /\ summary' = <<>>
                     /\ served' = <<>>
                     /\ transcript_name' = <<>>
                     /\ UNCHANGED <<models, summary_md>>

NoChunking == /\ sentences' = <<>>
              /\ idx' = 0
              /\ current_chunk' = <<>>
              /\ current_chunk_length' = 0
              /\ chunks' = <<>>
              /\ flushed' = <<>>

\* summarize_transcript, line 60, model not a key of self.models: KeyError
SummarizeUnknown ==
    /\ Ready
    /\ \E t \in Transcripts, m \in ModelIds \cup {UnknownModel} :
           /\ Enter("summarize", t, m, head)
           /\ Lookup(m) = NoEntry
           /\ pc' = "raised"
           /\ error' = "KeyError"
           /\ path' = "none"
           /\ calls' = <<>>
           /\ NoChunking

\* summarize_transcript, lines 60-62: the transcript fits, one call is issued
SummarizeDirect ==
    /\ Ready
    /\ \E t \in Transcripts, m \in ModelIds \cup {UnknownModel} :
           /\ Enter("summarize", t, m, head)
           /\ Lookup(m) # NoEntry
           /\ FitsDirect(Len(t), ContextLength(m))
           /\ pc' = "await"
           /\ error' = "none"
           /\ path' = "direct"
           /\ calls' = <<Request(instructions.summarize, t, m)>>
           /\ NoChunking

\* summarize_transcript, lines 60-67: the transcript is split, the loop starts
SummarizeChunked ==
    /\ Ready
    /\ \E t \in Transcripts, m \in ModelIds \cup {UnknownModel} :
           /\ Enter("summarize", t, m, head)
           /\ Lookup(m) # NoEntry
           /\ ~FitsDirect(Len(t), ContextLength(m))
           /\ pc' = "chunking"
           /\ error' = "none"
           /\ path' = "chunked"
           /\ calls' = <<>>
           /\ sentences' = Split(t, DOT)
           /\ idx' = 1
           /\ current_chunk' = <<>>
           /\ current_chunk_length' = 0
           /\ chunks' = <<>>
           /\ flushed' = <<>>

\* one iteration of the for loop, lines 68-76
LoopStep ==
    /\ pc = "chunking"
    /\ idx <= Len(sentences)
    /\ IF BoundaryReached(current_chunk_length, ContextLength(model))
       THEN /\ chunks' = Append(chunks, Join(current_chunk, DOT))
            /\ flushed' = Append(flushed, current_chunk)
            /\ current_chunk' = <<>>
            /\ current_chunk_length' = 0
       ELSE /\ current_chunk' = Append(current_chunk, sentences[idx])
            /\ current_chunk_length' = current_chunk_length + Len(sentences[idx])
            /\ UNCHANGED <<chunks, flushed>>
    /\ idx' = idx + 1
    /\ UNCHANGED <<models, summary_md, op, pc, error, transcript, model, head, path,
                   sentences, summaries, summary, calls, served, transcript_name>>

\* loop exit, lines 77-87 (or 93 when there is no chunk): last flush, first call
LoopEnd ==
    /\ pc = "chunking"
    /\ idx > Len(sentences)
    /\ IF current_chunk # <<>>
       THEN /\ chunks' = Append(chunks, Join(current_chunk, DOT))
            /\ flushed' = Append(flushed, current_chunk)
       ELSE UNCHANGED <<chunks, flushed>>
    /\ calls' = IF chunks' # <<>>
                THEN <<Request(instructions.summarize, chunks'[1], model)>>
                ELSE <<Request(instructions.fix_summary, FixPrompt(summaries), model)>>
    /\ pc' = "await"
    /\ UNCHANGED <<models, summary_md, op, error, transcript, model, head, path,
                   sentences, idx, current_chunk, current_chunk_length,
                   summaries, summary, served, transcript_name>>

\* lines 87-93: a chunk call returns r; the next chunk call or the fix call is issued
ReturnChunk(r) ==
    /\ pc = "await"
    /\ op = "summarize"
    /\ path = "chunked"
    /\ Len(summaries) < Len(chunks)
    /\ served' = Append(served, r)
    /\ summaries' = Append(summaries, r)
    /\ calls' = IF Len(summaries') < Len(chunks)
                THEN Append(calls, Request(instructions.summarize,
                                           chunks[Len(summaries') + 1], model))
                ELSE Append(calls, Request(instructions.fix_summary,
                                           FixPrompt(summaries'), model))
    /\ UNCHANGED <<models, summary_md, op, pc, error, transcript, model, head, path,
                   sentences, idx, current_chunk, current_chunk_length, chunks, flushed,
                   summary, transcript_name>>

\* lines 62 or 93, then 95-96: the last call returns r, summary.md is written
ReturnFinal(r) ==
    /\ pc = "await"
    /\ op = "summarize"
    /\ path = "direct" \/ Len(summaries) = Len(chunks)
    /\ served' = Append(served, r)
    /\ summary' = r
    /\ summary_md' = r
    /\ pc' = "done"
    /\ UNCHANGED <<models, op, error, transcript, model, head, path,
                   sentences, idx, current_chunk, current_chunk_length, chunks, flushed,
                   summaries, calls, transcript_name>>

RaiseAfterPartialWrite(kind) ==
    /\ pc = "await"
    /\ pc' = "raised"
    /\ error' = kind
    /\ summary_md' = IF op = "summarize" THEN FixPrompt(summaries) ELSE summary_md
    /\ UNCHANGED <<models, op, transcript, model, head, path,
                   sentences, idx, current_chunk, current_chunk_length, chunks, flushed,
                   summaries, summary, calls, served, transcript_name>>

\* model_response, lines 39-48: the call in flight raises; nothing catches it
Raise(kind) ==
    /\ pc = "await"
    /\ pc' = "raised"
    /\ error' = kind
    /\ UNCHANGED <<models, summary_md, op, transcript, model, head, path,
                   sentences, idx, current_chunk, current_chunk_length, chunks, flushed,
                   summaries, summary, calls, served, transcript_name>>

\* generate_text_name, lines 110-111: the head of the transcript is sent
GenerateTextName ==
    /\ Ready
    /\ \E t \in Texts, h \in Heads :
           /\ Enter("title", t, model, h)
           /\ pc' = "await"
           /\ error' = "none"
           /\ path' = "none"
           /\ calls' = <<Request(TitleInstructions, Slice(t, h), DefaultModel)>>
           /\ NoChunking

\* generate_text_name, lines 111-113: the reply is formatted and returned
ReturnTitle(r) ==
    /\ pc = "await"
    /\ op = "title"
    /\ served' = Append(served, r)
    /\ transcript_name' = TitleFormat(r)
    /\ pc' = "done"
    /\ UNCHANGED <<models, summary_md, op, error, transcript, model, head, path,
                   sentences, idx, current_chunk, current_chunk_length, chunks, flushed,
                   summaries, summary, calls>>

Next == \/ SummarizeUnknown
        \/ SummarizeDirect
        \/ SummarizeChunked
        \/ LoopStep
        \/ LoopEnd
        \/ \E r \in SummaryReplies : ReturnChunk(r)
        \/ \E r \in SummaryReplies : ReturnFinal(r)
        \/ \E kind \in Errors : Raise(kind)
        \/ GenerateTextName
        \/ \E r \in TitleReplies : ReturnTitle(r)

Spec == Init /\ [][Next]_vars

TypeOK == /\ pc \in {"idle", "chunking", "await", "done", "raised"}
          /\ op \in {"none", "summarize", "title"}
          /\ path \in {"none", "direct", "chunked"}
          /\ Len(served) <= Len(calls)

\* ------------------------------------------------------------------ claims
RECURSIVE Flatten(_)
Flatten(lists) == IF lists = <<>> THEN <<>> ELSE Head(lists) \o Flatten(Tail(lists))

RECURSIVE SumLen(_)
SumLen(list) == IF list = <<>> THEN 0 ELSE Len(Head(list)) + SumLen(Tail(list))

\* position in a newline-joined text just before part i begins
RECURSIVE Offset(_, _)
Offset(parts, i) == IF i = 1 THEN 0 ELSE Offset(parts, i - 1) + Len(parts[i - 1]) + 1

IsJoinedByNewline(u, parts) ==
    /\ Len(u) = IF parts = <<>> THEN 0 ELSE Offset(parts, Len(parts) + 1) - 1
    /\ \A i \in 1..Len(parts) :
         /\ \A k \in 1..Len(parts[i]) : u[Offset(parts, i) + k] = parts[i][k]
         /\ i > 1 => u[Offset(parts, i)] = NL

Chunked == op = "summarize" /\ path = "chunked"
ChunkingOver == Chunked /\ pc \in {"await", "done", "raised"}

ThresholdBoundary ==
    (op = "summarize" /\ error # "KeyError") =>
        /\ (path = "direct") <=> (10 * Len(transcript) < 24 * models[model])
        /\ (path = "chunked") <=> (10 * Len(transcript) >= 24 * models[model])
        /\ path = "direct" =>
             /\ sentences = <<>> /\ chunks = <<>>
             /\ \A i \in 1..Len(calls) : calls[i].system # instructions.fix_summary
        /\ (path = "chunked" /\ pc = "done") =>
             calls[Len(calls)].system = instructions.fix_summary

ThresholdBoundaryWitness ==
    /\ op = "summarize" /\ pc = "done" /\ path = "chunked"
    /\ Len(transcript) > 0
    /\ 10 * Len(transcript) = 24 * models[model]

\* C3: in every chunk the accumulated length without the chunk's last sentence
\* is at most 0.8 * effectiveContextChars, so the chunk's accumulated length is
\* at most that plus the length of its last sentence.
ChunkSizeBound ==
    Chunked => \A k \in 1..Len(flushed) :
        LET c == flushed[k]
            last == c[Len(c)]
        IN c # <<>> =>
             /\ 10 * (SumLen(c) - Len(last)) <= 8 * (4 * models[model])
             /\ 10 * SumLen(c) <= 8 * (4 * models[model]) + 10 * Len(last)

ChunkSizeBoundWitness ==
    /\ ChunkingOver /\ pc = "done"
    /\ Len(flushed) >= 2
    /\ \E k \in 1..Len(flushed) :
         /\ Len(flushed[k]) >= 2
         /\ 10 * SumLen(flushed[k]) > 8 * (4 * models[model])

\* C4: a remote call of summarize that fails ends the invocation at that call:
\* no call is issued after it and summary.md keeps its content; summary.md is
\* written only in the step in which the last call returns.
NoPartialOutput ==
    /\ []((op = "summarize" /\ pc = "raised" /\ error \in Errors) =>
            Len(served) = Len(calls) - 1)
    /\ [][/\ (op = "summarize" /\ pc = "await" /\ pc' = "raised") =>
                (calls' = calls /\ served' = served /\ summary_md' = summary_md)
          /\ (op = "summarize" /\ pc = "raised") =>
                (calls' = calls /\ summary_md' = summary_md)
          /\ (summary_md' # summary_md) =>
                /\ pc = "await" /\ pc' = "done"
                /\ calls' = calls
                /\ Len(served') = Len(calls)
                /\ path = "chunked" => Len(calls) = Len(chunks) + 1]_vars

NoPartialOutputWitness ==
    /\ Chunked /\ pc = "raised" /\ error = "RemoteServiceError"
    /\ Len(chunks) = 3 /\ Len(calls) = 2 /\ Len(served) = 1
    /\ summary_md = OldContent

\* C5: on the chunked path call i carries the summarize instruction and chunk
\* i and is issued only after call i-1 returned; then one fix_summary call is
\* issued, last, whose user content is the partial summaries joined by newline
\* in chunk order, and its reply is what summary.md receives.
CallOrdering ==
    ChunkingOver =>
        /\ Len(calls) <= Len(served) + 1
        /\ Len(calls) <= Len(chunks) + 1
        /\ \A i \in 1..Len(calls) :
             IF i <= Len(chunks)
             THEN calls[i] = [system |-> instructions.summarize,
                              user |-> chunks[i], model |-> model]
             ELSE /\ Len(served) >= Len(chunks)
                  /\ calls[i].system = instructions.fix_summary
                  /\ calls[i].model = model
                  /\ IsJoinedByNewline(calls[i].user, SubSeq(served, 1, Len(chunks)))
        /\ pc = "done" =>
             /\ Len(calls) = Len(chunks) + 1
             /\ Len(served) = Len(calls)
             /\ summary_md = served[Len(served)]

CallOrderingWitness ==
    /\ ChunkingOver /\ pc = "done"
    /\ Len(chunks) >= 2
    /\ served[1] # served[2]
    /\ served[3] # served[2]

\* C6: when every sentence alone is longer than 0.8 * effectiveContextChars, a
\* chunked transcript of n sentences gives n chunks of one sentence each and
\* n + 1 remote calls.
OneSentencePerChunk ==
    (ChunkingOver /\ pc = "done"
       /\ \A i \in 1..Len(sentences) :
            BoundaryReached(Len(sentences[i]), 4 * models[model])) =>
        /\ Len(chunks) = Len(sentences)
        /\ \A k \in 1..Len(flushed) : Len(flushed[k]) = 1
        /\ Len(calls) = Len(sentences) + 1

\* C7: on the direct path there is exactly one remote call, with the summarize
\* instruction, the whole transcript and the requested model, and summary.md
\* receives exactly that call's reply.
DirectPath ==
    (op = "summarize" /\ path = "direct") =>
        /\ calls = <<[system |-> instructions.summarize,
                      user |-> transcript, model |-> model]>>
        /\ pc = "done" => (Len(served) = 1 /\ summary_md = served[1])
        /\ pc # "done" => (served = <<>> /\ summary_md \in {NoFile, OldContent})

DirectPathWitness ==
    /\ op = "summarize" /\ path = "direct" /\ pc = "done"
    /\ model = GPT4
    /\ Len(transcript) >= 2

\* C8: generate_text_name sends exactly the first min(head, len(transcript))
\* characters, and returns the reply with every '"' removed and every ' '
\* turned into '_', the other characters kept in order.
TitleContract ==
    (op = "title" /\ pc \in {"await", "done", "raised"}) =>
        /\ Len(calls) = 1
        /\ calls[1].system = TitleInstructions
        /\ Len(calls[1].user) = Min(head, Len(transcript))
        /\ \A i \in 1..Len(calls[1].user) : calls[1].user[i] = transcript[i]
        /\ pc = "done" =>
             LET kept == SelectSeq(served[1], LAMBDA c : c # QUOTE)
             IN /\ Len(transcript_name) = Len(kept)
                /\ \A i \in 1..Len(kept) :
                     transcript_name[i] = IF kept[i] = SPACE THEN UNDERSCORE ELSE kept[i]
                /\ \A i \in 1..Len(transcript_name) :
                     transcript_name[i] \notin {QUOTE, SPACE}

TitleContractWitness ==
    /\ op = "title" /\ pc = "done"
    /\ 0 < head /\ head < Len(transcript)
    /\ served[1] = <<SPACE, QUOTE>>

\* C9: summarize with a model that is not a key of the table ends in the
\* configuration error (KeyError) with no remote call and summary.md untouched.
UnknownModelRaises ==
    [][(op' = "summarize" /\ model' \notin DOMAIN models') =>
          /\ pc' = "raised" /\ error' = "KeyError"
          /\ calls' = <<>> /\ served' = <<>>
          /\ summary_md' = summary_md]_vars

UnknownModelRaisesWitness ==
    /\ op = "summarize" /\ model = UnknownModel
    /\ pc = "raised" /\ error = "KeyError"
    /\ Len(transcript) >= 2
    /\ summary_md = OldContent

\* C10: when the check before the append closes the current chunk, the
\* sentence examined in that iteration opens the next chunk: it is not skipped.
BoundaryPlacement ==
    [][(pc = "chunking" /\ idx <= Len(sentences)
          /\ BoundaryReached(current_chunk_length, 4 * models[model])) =>
          /\ flushed' = Append(flushed, current_chunk)
          /\ \/ (idx' = idx + 1 /\ current_chunk' = <<sentences[idx]>>)
             \/ (idx' = idx /\ current_chunk' = <<>>)]_vars

====
